---- MODULE Spec2Model ----
(***************************************************************************)
(* Model of src/src/main.rs: the periodic fetcher (send_requests), the     *)
(* drain step (handle_responses) with its hex parsing, duplicate check and *)
(* block-to-geometry layout loop, and block_movement.                      *)
(*                                                                         *)
(* Representation choices                                                  *)
(*  - A Rust String is a tuple of characters, so that slicing (&s[2..])    *)
(*    and digit-by-digit radix-16 parsing are computed.  A character is    *)
(*    its Unicode code point: "0x10" is <<48, 120, 49, 48>>, and the       *)
(*    two-byte character U+00E8 is 232.                                    *)
(*  - An f32 is a pair <<m, e>>: zero is <<0, 0>>, any other finite value  *)
(*    is m * 2^e with 2^23 <= |m| < 2^24, and every operation rounds to    *)
(*    nearest, ties to even, as the hardware does.  Infinities and NaN     *)
(*    carry the exponent InfExp.  The exponent is not limited to 8 bits:   *)
(*    the values of this program stay far from overflow and underflow.     *)
(*  - A Vec3 is a triple of f32.                                           *)
(*  - Commands (spawn / despawn) are deferred by the engine: they are      *)
(*    applied after the system has returned, and queries made inside the   *)
(*    system see the world as it was when the system started.              *)
(*  - Time advances in whole seconds.  Each on_timer run condition owns a  *)
(*    repeating timer; a second in which a timer finishes makes its        *)
(*    system due, and every due system runs in that frame, in no fixed     *)
(*    order.  HTTP calls complete between those frames.                    *)
(***************************************************************************)
EXTENDS Integers, Sequences, FiniteSets, TLC

VARIABLES
    inflight,   \* number of ReqwestRequest entities whose HTTP call has not completed
    results,    \* entities carrying a ReqwestBytesResult, in query iteration order
    blocks,     \* entities carrying a Block component, with their children
    stdout,     \* lines printed by the most recent run of handle_responses
    panic,      \* "none", or the unwrap / slice that aborted the process
    timers,     \* seconds elapsed on the repeating timer of each on_timer condition
    due         \* timed systems whose condition holds in this frame and have not run yet

vars == <<inflight, results, blocks, stdout, panic, timers, due>>

(***************************************************************************)
(* Bounds of the model.                                                    *)
(***************************************************************************)
MaxInFlight == 2
MaxEntities == 2
MaxFrames == 1
MaxTx == 3

(***************************************************************************)
(* f32 arithmetic: IEEE 754 binary32 with round-to-nearest, ties-to-even.  *)
(* A value is <<m, e>>, standing for m * 2^e.                              *)
(***************************************************************************)
Abs(n) == IF n < 0 THEN -n ELSE n

Sign(n) == IF n < 0 THEN -1 ELSE IF n > 0 THEN 1 ELSE 0

Pow2Table ==
    <<1, 2, 4, 8, 16, 32, 64, 128, 256, 512, 1024, 2048, 4096, 8192, 16384, 32768, 65536,
      131072, 262144, 524288, 1048576, 2097152, 4194304, 8388608, 16777216, 33554432,
      67108864, 134217728, 268435456, 536870912, 1073741824>>

Pow2(k) == Pow2Table[k + 1]

RECURSIVE BitLen(_)
BitLen(n) == IF n = 0 THEN 0 ELSE 1 + BitLen(n \div 2)

\* bits of the significand, and the exponent that marks infinities and NaN
MantBits == 24
InfExp == 9999

F0 == <<0, 0>>
NaN == <<0, InfExp>>
Inf(sign) == <<sign, InfExp>>
IsNaN(a) == a = NaN
IsInf(a) == a[2] = InfExp /\ a[1] # 0
IsFinite(a) == a[2] # InfExp

\* The quotient q of the significand by the dropped bits, rounded up or not
RoundUp(sign, e, q, up) ==
    IF ~up THEN <<sign * q, e>>
    ELSE IF q + 1 = Pow2(MantBits) THEN <<sign * Pow2(MantBits - 1), e + 1>>
    ELSE <<sign * (q + 1), e>>

\* mag has more than MantBits bits: the bits below `unit` are dropped, to nearest, ties to even
RoundShift(sign, mag, e, sticky, unit) ==
    RoundUp(sign, e, mag \div unit,
            \/ (mag % unit) * 2 > unit
            \/ (mag % unit) * 2 = unit /\ (sticky \/ (mag \div unit) % 2 = 1))

\* mag has n bits
RoundBits(sign, mag, e, sticky, n) ==
    IF n <= MantBits
    THEN <<sign * mag * Pow2(MantBits - n), e - (MantBits - n)>>
    ELSE RoundShift(sign, mag, e + (n - MantBits), sticky, Pow2(n - MantBits))

\* sign * mag * 2^e rounded to MantBits bits; sticky says that bits below mag were lost
Round(sign, mag, e, sticky) ==
    IF mag = 0 THEN F0 ELSE RoundBits(sign, mag, e, sticky, BitLen(mag))

FNeg(a) == <<-a[1], a[2]>>

\* The smaller operand reduced to `small` below three guard bits, sticky if bits were lost
FAddSticky(hi, same, small, sticky) ==
    Round(Sign(hi[1]),
          IF same THEN Abs(hi[1]) * 8 + small
          ELSE IF sticky THEN Abs(hi[1]) * 8 - small - 1
          ELSE Abs(hi[1]) * 8 - small,
          hi[2] - 3, sticky)

\* The operands are more than three binary places apart: lo is shifted right by sh
FAddFar(hi, lo, sh) ==
    FAddSticky(hi, Sign(hi[1]) = Sign(lo[1]),
               IF sh > MantBits THEN 0 ELSE Abs(lo[1]) \div Pow2(sh),
               IF sh > MantBits THEN TRUE ELSE Abs(lo[1]) % Pow2(sh) # 0)

\* The exact sum s * 2^e
FAddNear(s, e) == Round(Sign(s), Abs(s), e, FALSE)

\* hi has the larger exponent, by d
FAddAligned(hi, lo, d) ==
    IF d <= 3 THEN FAddNear(hi[1] * Pow2(d) + lo[1], lo[2]) ELSE FAddFar(hi, lo, d - 3)

FAddFinite(a, b) ==
    IF a[2] >= b[2] THEN FAddAligned(a, b, a[2] - b[2]) ELSE FAddAligned(b, a, b[2] - a[2])

FAdd(a, b) ==
    IF IsNaN(a) \/ IsNaN(b) THEN NaN
    ELSE IF IsInf(a) THEN (IF IsInf(b) /\ b[1] # a[1] THEN NaN ELSE a)
    ELSE IF IsInf(b) THEN b
    ELSE IF a[1] = 0 THEN b
    ELSE IF b[1] = 0 THEN a
    ELSE FAddFinite(a, b)

FSub(a, b) == FAdd(a, FNeg(b))

\* The product is hi * 2^24 + y: its top 26 bits are kept, the rest is sticky
FMulWords(sign, e, hi, y) ==
    Round(sign, (hi + y \div Pow2(24)) * 4 + (y % Pow2(24)) \div Pow2(22), e,
          y % Pow2(22) # 0)

FMulSum(sign, e, hh, cross, ll) ==
    FMulWords(sign, e, hh + cross \div Pow2(12), (cross % Pow2(12)) * Pow2(12) + ll)

FMulHalves(sign, e, ah, al, bh, bl) == FMulSum(sign, e, ah * bh, ah * bl + al * bh, al * bl)

\* the 48-bit product of two significands, from 12-bit halves
FMulFinite(a, b) ==
    FMulHalves(Sign(a[1]) * Sign(b[1]), a[2] + b[2] + 22,
               Abs(a[1]) \div Pow2(12), Abs(a[1]) % Pow2(12),
               Abs(b[1]) \div Pow2(12), Abs(b[1]) % Pow2(12))

FMul(a, b) ==
    IF IsNaN(a) \/ IsNaN(b) THEN NaN
    ELSE IF IsInf(a) \/ IsInf(b)
         THEN (IF a[1] = 0 \/ b[1] = 0 THEN NaN ELSE Inf(Sign(a[1]) * Sign(b[1])))
    ELSE IF a[1] = 0 \/ b[1] = 0 THEN F0
    ELSE FMulFinite(a, b)

\* n quotient bits of r / d by long division: <<quotient, remainder>>
RECURSIVE DivBits(_, _, _, _)
DivBits(r, d, q, n) ==
    IF n = 0 THEN <<q, r>>
    ELSE IF r >= d THEN DivBits(2 * (r - d), d, 2 * q + 1, n - 1)
    ELSE DivBits(2 * r, d, 2 * q, n - 1)

\* qr is the quotient and the remainder of the long division
FDivRound(sign, e, qr) == Round(sign, qr[1], e, qr[2] # 0)

FDivFinite(a, b) ==
    FDivRound(Sign(a[1]) * Sign(b[1]), a[2] - b[2] - (MantBits + 1),
              DivBits(Abs(a[1]), Abs(b[1]), 0, MantBits + 2))

\* a zero divisor is +0.0 (it comes from an unsigned integer)
FDiv(a, b) ==
    IF IsNaN(a) \/ IsNaN(b) THEN NaN
    ELSE IF IsInf(a) THEN (IF IsInf(b) THEN NaN ELSE IF b[1] < 0 THEN FNeg(a) ELSE a)
    ELSE IF IsInf(b) THEN F0
    ELSE IF b[1] = 0 THEN (IF a[1] = 0 THEN NaN ELSE Inf(Sign(a[1])))
    ELSE IF a[1] = 0 THEN F0
    ELSE FDivFinite(a, b)

\* a < b; every comparison with NaN is false
FLt(a, b) ==
    IF IsNaN(a) \/ IsNaN(b) THEN FALSE
    ELSE IF Sign(a[1]) # Sign(b[1]) THEN Sign(a[1]) < Sign(b[1])
    ELSE IF a[1] > 0 THEN a[2] < b[2] \/ (a[2] = b[2] /\ a[1] < b[1])
    ELSE IF a[1] < 0 THEN a[2] > b[2] \/ (a[2] = b[2] /\ a[1] < b[1])
    ELSE FALSE

FLe(a, b) == ~IsNaN(a) /\ ~IsNaN(b) /\ ~FLt(b, a)

\* f32::max and f32::min return the other operand when one is NaN
FMax(a, b) == IF IsNaN(a) THEN b ELSE IF IsNaN(b) THEN a ELSE IF FLt(a, b) THEN b ELSE a

FMin(a, b) == IF IsNaN(a) THEN b ELSE IF IsNaN(b) THEN a ELSE IF FLt(b, a) THEN b ELSE a

\* `n as f32` for an unsigned integer
U64AsF32(n) == Round(1, n, 0, FALSE)

\* the f32 a decimal literal denotes: the value nearest to n / d
F32(n, d) == FDiv(Round(Sign(n), Abs(n), 0, FALSE), U64AsF32(d))

F1 == F32(1, 1)
F2 == F32(2, 1)
FHalf == F32(1, 2)
FNegHalf == F32(-1, 2)
FNegOne == F32(-1, 1)
FHundredth == F32(1, 100)
FTwentieth == F32(1, 20)
FFillWidth == F32(101, 100)

Vec3New(x, y, z) == <<x, y, z>>
Vec3ZERO == <<F0, F0, F0>>
Vec3ONE == <<F1, F1, F1>>
Vec3Scale(s, v) == <<FMul(s, v[1]), FMul(s, v[2]), FMul(s, v[3])>>
Vec3Add(v, w) == <<FAdd(v[1], w[1]), FAdd(v[2], w[2]), FAdd(v[3], w[3])>>

(***************************************************************************)
(* Program constants.                                                      *)
(***************************************************************************)
BLOCK_SPEED == F32(1, 5)
TX_SPACING == F32(1, 20)

(***************************************************************************)
(* u64::from_str_radix(&s[2..], 16).                                       *)
(***************************************************************************)
\* char::to_digit(16)
HexDigit(c) ==
    IF c \in 48..57 THEN c - 48
    ELSE IF c \in 97..102 THEN c - 87
    ELSE IF c \in 65..70 THEN c - 55
    ELSE -1

RECURSIVE DigitsValue(_)
DigitsValue(ds) ==
    IF ds = <<>> THEN 0
    ELSE DigitsValue(SubSeq(ds, 1, Len(ds) - 1)) * 16 + HexDigit(ds[Len(ds)])

RECURSIVE StripZeros(_)
StripZeros(ds) == IF ds # <<>> /\ ds[1] = 48 THEN StripZeros(Tail(ds)) ELSE ds

\* A u64 holds at most 16 significant hexadecimal digits
U64HexDigits == 16

Err == [ok |-> FALSE, val |-> 0]
Ok(v) == [ok |-> TRUE, val |-> v]

FromStrRadix16(src) ==
    IF src = <<>> THEN Err
    ELSE IF Len(src) = 1 /\ src[1] \in {43, 45} THEN Err
    ELSE LET digits == IF src[1] = 43 THEN Tail(src) ELSE src
         IN  IF \E i \in 1..Len(digits) : HexDigit(digits[i]) = -1 THEN Err
             ELSE IF Len(StripZeros(digits)) > U64HexDigits THEN Err
             ELSE Ok(DigitsValue(digits))

\* char::len_utf8
Utf8Len(c) ==
    IF c < 128 THEN 1
    ELSE IF c < 2048 THEN 2
    ELSE IF c < 65536 THEN 3
    ELSE 4

\* str::len, in bytes
RECURSIVE ByteLen(_)
ByteLen(s) == IF s = <<>> THEN 0 ELSE Utf8Len(Head(s)) + ByteLen(Tail(s))

\* the numbers of leading characters that end at byte `index`
CharsUpTo(s, index) == {k \in 0..Len(s) : ByteLen(SubSeq(s, 1, k)) = index}

\* str::is_char_boundary: the start, the end, or the first byte of a character
IsCharBoundary(s, index) == CharsUpTo(s, index) # {}

\* &s[2..] panics when the string is shorter than two bytes and when byte 2 is inside
\* a character
CanSlice2(s) == IsCharBoundary(s, 2)

\* &s[2..]: the characters from byte 2 on; it has no value where CanSlice2(s) is false
Slice2(s) == SubSeq(s, (CHOOSE k \in CharsUpTo(s, 2) : TRUE) + 1, Len(s))

(***************************************************************************)
(* Layout of one new block (the body of the else branch and the            *)
(* with_children closure of handle_responses).                             *)
(***************************************************************************)
Ratio(gas_used, gas_limit) == FDiv(U64AsF32(gas_used), U64AsF32(gas_limit))

CenterTranslation(ratio) ==
    LET new_height == FMul(F1, ratio)
    IN  FSub(FAdd(FNegHalf, FDiv(new_height, F2)), FHundredth)

Fill(ratio) ==
    [mesh_size |-> F1,
     transform |-> [translation |-> Vec3New(F0, CenterTranslation(ratio), F0),
                    scale |-> Vec3New(FFillWidth, ratio, FFillWidth)]]

InitialOffset == FSub(FDiv(F1, F2), TX_SPACING)

\* The gas of the transaction taken as its ratio, not divided by the limit
TxRatioUndivided(gas, gas_limit) == U64AsF32(gas)

TxRatio(gas, gas_limit) == FDiv(U64AsF32(gas), U64AsF32(gas_limit))

\* The marker centred with the clamped ratio
TxTranslationClamped(offset, tx_ratio) ==
    FSub(offset, FDiv(FMin(FMax(tx_ratio, FTwentieth), F1), F2))

TxTranslation(offset, tx_ratio) == FSub(offset, FDiv(tx_ratio, F2))

LimitedValue(tx_ratio) == FMin(FMax(tx_ratio, FTwentieth), F1)

Marker(ratio, tx_translation, limited_value) ==
    [mesh_size |-> ratio,
     transform |-> [translation |-> Vec3New(F0, tx_translation, F0),
                    scale |-> Vec3Scale(limited_value, Vec3ONE)]]

\* Every segment drawn from the origin
LineListFromOrigin(previous_position, current_position) ==
    [lines |-> <<<<Vec3ZERO, current_position>>>>]

LineList(previous_position, current_position) ==
    [lines |-> <<<<previous_position, current_position>>>>]

NextOffset(offset, tx_ratio) == FSub(offset, FSub(FDiv(tx_ratio, F2), TX_SPACING))

\* Iteration k takes the transaction at the position its transactionIndex names
EnumerateByIndex(transactions, k) ==
    LET index == transactions[k].transactionIndex
    IN  IF /\ CanSlice2(index)
           /\ FromStrRadix16(Slice2(index)).ok
           /\ FromStrRadix16(Slice2(index)).val + 1 \in 1..Len(transactions)
        THEN transactions[FromStrRadix16(Slice2(index)).val + 1]
        ELSE transactions[k]

\* iter().enumerate(): iteration k takes the k-th element of the list
Enumerate(transactions, k) == transactions[k]

\* The state of the loop over a.result.transactions after its first k iterations
RECURSIVE LayoutLoop(_, _, _, _)
LayoutLoop(gas_limit, ratio, transactions, k) ==
    IF k = 0
    THEN [panic |-> "none", offset |-> InitialOffset, previous_position |-> Vec3ZERO,
          markers |-> <<>>, segments |-> <<>>]
    ELSE LET s == LayoutLoop(gas_limit, ratio, transactions, k - 1)
             t == Enumerate(transactions, k)
         IN  IF s.panic # "none" THEN s
             ELSE IF ~CanSlice2(t.gas) THEN [s EXCEPT !.panic = "slice"]
             ELSE IF ~FromStrRadix16(Slice2(t.gas)).ok THEN [s EXCEPT !.panic = "unwrap_gas"]
             ELSE IF ~CanSlice2(t.transactionIndex) THEN [s EXCEPT !.panic = "slice"]
             ELSE IF ~FromStrRadix16(Slice2(t.transactionIndex)).ok
                  THEN [s EXCEPT !.panic = "unwrap_index"]
             ELSE LET gas == FromStrRadix16(Slice2(t.gas)).val
                      tx_ratio == TxRatio(gas, gas_limit)
                      tx_translation == TxTranslation(s.offset, tx_ratio)
                      current_position == Vec3New(F0, tx_translation, F0)
                      limited_value == LimitedValue(tx_ratio)
                  IN  [panic |-> "none",
                       offset |-> NextOffset(s.offset, tx_ratio),
                       previous_position |-> current_position,
                       markers |-> Append(s.markers,
                                          Marker(ratio, tx_translation, limited_value)),
                       segments |-> Append(s.segments,
                                           LineList(s.previous_position, current_position))]

\* The children start with a segment along the axis, spawned outside the loop
SpawnBlockWithAxisSegment(number, gas_limit, gas_used, ratio, loop) ==
    [number |-> number, gas_limit |-> gas_limit, gas_used |-> gas_used,
     mesh_size |-> F1,
     transform |-> [translation |-> Vec3New(F0, FHalf, F0), scale |-> Vec3ONE],
     fill |-> Fill(ratio),
     markers |-> loop.markers,
     segments |-> <<LineList(Vec3ZERO, Vec3ZERO)>> \o loop.segments]

\* The Block entity with its PbrBundle and its children
SpawnBlock(number, gas_limit, gas_used, ratio, loop) ==
    [number |-> number, gas_limit |-> gas_limit, gas_used |-> gas_used,
     mesh_size |-> F1,
     transform |-> [translation |-> Vec3New(F0, FHalf, F0), scale |-> Vec3ONE],
     fill |-> Fill(ratio),
     markers |-> loop.markers,
     segments |-> loop.segments]

\* The duplicate check left out
BlockExistsNever(existing, number) == FALSE

BlockExists(existing, number) == \E i \in 1..Len(existing) : existing[i].number = number

\* A line of println!: its text, and the u64 and the f32 values formatted into it
Line(text, u64_args, f32_args) == [text |-> text, u64 |-> u64_args, f32 |-> f32_args]

Outcome(p, out, spawn) == [panic |-> p, out |-> out, spawn |-> spawn]

\* One iteration of `for (e, res) in results.iter()`; `existing` is what
\* Query<&Block> yields, the Block entities present when the system started
ProcessResponse(res, existing) ==
    IF res.kind = "transport_error" THEN Outcome("unwrap_result", <<>>, <<>>)
    ELSE IF res.kind # "ok" THEN Outcome("unwrap_json", <<>>, <<>>)
    ELSE IF ~CanSlice2(res.number) THEN Outcome("slice", <<>>, <<>>)
    ELSE IF ~FromStrRadix16(Slice2(res.number)).ok THEN Outcome("none", <<>>, <<>>)
    ELSE IF ~CanSlice2(res.gas_limit) THEN Outcome("slice", <<>>, <<>>)
    ELSE IF ~FromStrRadix16(Slice2(res.gas_limit)).ok THEN Outcome("none", <<>>, <<>>)
    ELSE IF ~CanSlice2(res.gas_used) THEN Outcome("slice", <<>>, <<>>)
    ELSE IF ~FromStrRadix16(Slice2(res.gas_used)).ok THEN Outcome("none", <<>>, <<>>)
    ELSE LET number == FromStrRadix16(Slice2(res.number)).val
             gas_limit == FromStrRadix16(Slice2(res.gas_limit)).val
             gas_used == FromStrRadix16(Slice2(res.gas_used)).val
         IN  IF BlockExists(existing, number)
             THEN Outcome("none", <<Line("Already have this block", <<>>, <<>>)>>, <<>>)
             ELSE LET ratio == Ratio(gas_used, gas_limit)
                      loop == LayoutLoop(gas_limit, ratio, res.transactions,
                                         Len(res.transactions))
                      out == <<Line("spawning new block", <<number>>, <<>>),
                               Line("ratio", <<>>, <<ratio>>)>>
                  IN  Outcome(loop.panic, out,
                              <<SpawnBlock(number, gas_limit, gas_used, ratio, loop)>>)

\* The despawn placed inside the branch that spawns a Block
DespawnedWhenSpawned(p, e) == IF p.panic = "none" /\ p.spawn # <<>> THEN {e} ELSE {}

\* commands.entity(e).despawn_recursive() closes every iteration that did not panic
Despawned(p, e) == IF p.panic = "none" THEN {e} ELSE {}

DrainOutcome(p, out, spawn, despawn) ==
    [panic |-> p, out |-> out, spawn |-> spawn, despawn |-> despawn]

\* The first k iterations of the loop over the pending results
RECURSIVE Drain(_, _, _)
Drain(rs, existing, k) ==
    IF k = 0 THEN DrainOutcome("none", <<>>, <<>>, {})
    ELSE LET a == Drain(rs, existing, k - 1)
         IN  IF a.panic # "none" THEN a
             ELSE LET p == ProcessResponse(rs[k], existing)
                  IN  DrainOutcome(p.panic, a.out \o p.out, a.spawn \o p.spawn,
                                   a.despawn \cup Despawned(p, k))

\* The first k result entities without the despawned ones
RECURSIVE Remaining(_, _, _)
Remaining(rs, despawn, k) ==
    IF k = 0 THEN <<>>
    ELSE IF k \in despawn THEN Remaining(rs, despawn, k - 1)
    ELSE Append(Remaining(rs, despawn, k - 1), rs[k])

(***************************************************************************)
(* Responses the endpoint can deliver.                                     *)
(***************************************************************************)
Tx(gas, index) == [blockNumber |-> <<48, 120, 49, 48>>, transactionIndex |-> index,
                   gas |-> gas]

OkResponse(number, gas_limit, gas_used, transactions) ==
    [kind |-> "ok", number |-> number, gas_limit |-> gas_limit, gas_used |-> gas_used,
     transactions |-> transactions]

Failure(kind) ==
    [kind |-> kind, number |-> <<>>, gas_limit |-> <<>>, gas_used |-> <<>>,
     transactions |-> <<>>]

H0 == <<48, 120, 48>>    \* 0x0
H1 == <<48, 120, 49>>    \* 0x1
Ha == <<48, 120, 97>>    \* 0xa
H10 == <<48, 120, 49, 48>>    \* 0x10
H11 == <<48, 120, 49, 49>>    \* 0x11
H12 == <<48, 120, 49, 50>>    \* 0x12
H14 == <<48, 120, 49, 52>>    \* 0x14
H32 == <<48, 120, 51, 50>>    \* 0x32
H64 == <<48, 120, 54, 52>>    \* 0x64
H96 == <<48, 120, 57, 54>>    \* 0x96
Hzz == <<48, 120, 122, 122>>    \* 0xzz
Hshort == <<48>>    \* 0
Hsplit == <<48, 232, 49, 48>>    \* 0<U+00E8>10

Responses ==
    { OkResponse(H10, H64, H32, <<Tx(H14, H0), Tx(Ha, H1)>>),
      OkResponse(H10, H64, H32, <<>>),
      OkResponse(H11, H64, H0, <<Tx(H1, H0), Tx(H1, H1), Tx(H1, H1)>>),
      OkResponse(H12, H0, H0, <<>>),
      OkResponse(H11, H64, H96, <<Tx(H14, H0)>>),
      OkResponse(Hzz, H64, H32, <<>>),
      OkResponse(H10, Hshort, H32, <<>>),
      OkResponse(H10, H64, Hsplit, <<>>),
      OkResponse(H14, H64, H32, <<Tx(H14, H0), Tx(Hzz, H1)>>),
      Failure("malformed_json"),
      Failure("transport_error") }

(***************************************************************************)
(* The systems.                                                            *)
(***************************************************************************)
FetchSecs == 2
DrainSecs == 1

\* The fetcher on the short period and the drain on the long one
DurationSwapped(system) == IF system = "fetch" THEN DrainSecs ELSE FetchSecs

\* on_timer(Duration::from_secs(..)) of each timed system
Duration(system) == IF system = "fetch" THEN FetchSecs ELSE DrainSecs

\* Timer::tick of a repeating timer, by one second
Tick(ts) == [system \in DOMAIN ts |-> (ts[system] + 1) % Duration(system)]

\* Timer::just_finished
JustFinished(ts) == {system \in DOMAIN ts : ts[system] = 0}

Init ==
    /\ inflight = 0
    /\ results = <<>>
    /\ blocks = <<>>
    /\ stdout = <<>>
    /\ panic = "none"
    /\ timers = [fetch |-> 0, drain |-> 0]
    /\ due = {}

\* One second passes once every due system has run; the run conditions tick their timers
TimerTick ==
    /\ panic = "none"
    /\ due = {}
    /\ timers' = Tick(timers)
    /\ due' = JustFinished(timers')
    /\ UNCHANGED <<inflight, results, blocks, stdout, panic>>

\* send_requests: spawn one ReqwestRequest, whatever is still in flight.  The model
\* follows MaxInFlight calls; a request sent beyond that is one that is never answered.
SendRequests ==
    /\ panic = "none"
    /\ "fetch" \in due
    /\ inflight' = IF inflight < MaxInFlight THEN inflight + 1 ELSE inflight
    /\ due' = due \ {"fetch"}
    /\ UNCHANGED <<results, blocks, stdout, panic, timers>>

\* ReqwestPlugin: an HTTP call completes and its entity receives a ReqwestBytesResult
Complete(res) ==
    /\ panic = "none"
    /\ due = {}
    /\ inflight > 0
    /\ Len(results) + Len(blocks) < MaxEntities
    /\ inflight' = inflight - 1
    /\ results' = Append(results, res)
    /\ UNCHANGED <<blocks, stdout, panic, timers, due>>

\* handle_responses, followed by the application of its queued commands
HandleResponses ==
    /\ panic = "none"
    /\ "drain" \in due
    /\ LET run == Drain(results, blocks, Len(results))
       IN  /\ stdout' = run.out
           /\ IF run.panic # "none"
              THEN /\ panic' = run.panic
                   /\ UNCHANGED <<inflight, results, blocks, timers, due>>
              ELSE /\ blocks' = blocks \o run.spawn
                   /\ results' = Remaining(results, run.despawn, Len(results))
                   /\ due' = due \ {"drain"}
                   /\ UNCHANGED <<inflight, panic, timers>>

\* Time::delta_seconds of a frame
DeltaSeconds == FHalf

Moved(block, dt) ==
    LET direction == Vec3New(F0, F0, FNegOne)
    IN  [block EXCEPT !.transform.translation =
            Vec3Add(@, Vec3Scale(dt, Vec3Scale(BLOCK_SPEED, direction)))]

FramesMoved(block) ==
    FDiv(FNeg(block.transform.translation[3]), FMul(BLOCK_SPEED, DeltaSeconds))

\* Blocks that have moved a whole frame away are despawned
BlockMovementDespawning ==
    /\ panic = "none"
    /\ \A i \in 1..Len(blocks) : FLt(FramesMoved(blocks[i]), U64AsF32(MaxFrames))
    /\ blocks' = SelectSeq([i \in 1..Len(blocks) |-> Moved(blocks[i], DeltaSeconds)],
                           LAMBDA block : FLt(FramesMoved(block), F1))
    /\ UNCHANGED <<inflight, results, stdout, panic, timers, due>>

\* block_movement
BlockMovement ==
    /\ panic = "none"
    /\ \A i \in 1..Len(blocks) : FLt(FramesMoved(blocks[i]), U64AsF32(MaxFrames))
    /\ blocks' = [i \in 1..Len(blocks) |-> Moved(blocks[i], DeltaSeconds)]
    /\ UNCHANGED <<inflight, results, stdout, panic, timers, due>>

Next ==
    \/ TimerTick
    \/ SendRequests
    \/ \E res \in Responses : Complete(res)
    \/ HandleResponses
    \/ BlockMovement

Spec == Init /\ [][Next]_vars

\* handle_responses can run: this is ENABLED <<HandleResponses>>_vars
DrainDue == panic = "none" /\ "drain" \in due

\* The engine runs a frame after a frame as long as the process lives: time passes, and
\* a timed system that is due runs in its frame.  The last conjunct is
\* WF_vars(HandleResponses) with its ENABLED written out as DrainDue.
FairSpec ==
    /\ Spec
    /\ WF_vars(TimerTick)
    /\ WF_vars(SendRequests)
    /\ ([]<>(~DrainDue) \/ []<><<HandleResponses>>_vars)

(***************************************************************************)
(* The layout on its own: one completed response, drawn from every         *)
(* combination of the field values below, is pending; handle_responses     *)
(* consumes it.                                                            *)
(***************************************************************************)
LayoutGas == {H0, H1, H14, H96, Hzz}
LayoutIndex == {H0, H1}
LayoutTx == {Tx(gas, index) : gas \in LayoutGas, index \in LayoutIndex}
LayoutTransactions == UNION {[1..n -> LayoutTx] : n \in 0..MaxTx}

LayoutResponses ==
    {OkResponse(H10, gas_limit, gas_used, transactions) :
        gas_limit \in {H64, H0}, gas_used \in {H32, H96},
        transactions \in LayoutTransactions}

LayoutInit ==
    /\ inflight = 0
    /\ results \in {<<res>> : res \in LayoutResponses}
    /\ blocks = <<>>
    /\ stdout = <<>>
    /\ panic = "none"
    /\ timers = [fetch |-> 1, drain |-> 0]
    /\ due = {"drain"}

LayoutNext ==
    \/ HandleResponses
    \/ BlockMovement

LayoutSpec == LayoutInit /\ [][LayoutNext]_vars

(***************************************************************************)
(* Helpers of the properties.                                              *)
(***************************************************************************)
\* A step of handle_responses that consumed at least one response
DrainStep == results # <<>> /\ results' = <<>> /\ panic' = "none"

HeaderParses(res) ==
    /\ res.kind = "ok"
    /\ CanSlice2(res.number) /\ FromStrRadix16(Slice2(res.number)).ok
    /\ CanSlice2(res.gas_limit) /\ FromStrRadix16(Slice2(res.gas_limit)).ok
    /\ CanSlice2(res.gas_used) /\ FromStrRadix16(Slice2(res.gas_used)).ok

NumberOf(res) == FromStrRadix16(Slice2(res.number)).val
GasLimitOf(res) == FromStrRadix16(Slice2(res.gas_limit)).val
GasUsedOf(res) == FromStrRadix16(Slice2(res.gas_used)).val

KnownNumbers == {blocks[i].number : i \in 1..Len(blocks)}

HasLine(out, text) == \E i \in 1..Len(out) : out[i].text = text

(***************************************************************************)
(* C1: there is at most one stored Block per block number, also when two   *)
(* responses carrying the same number are pending in one drain tick        *)
(* (stated for Blocks with 0 < gas_limit and gas_used <= gas_limit, so     *)
(* that it does not depend on how ill-formed blocks are treated).          *)
(***************************************************************************)
C1_AtMostOneBlockPerNumber ==
    \A i, j \in 1..Len(blocks) :
        (/\ blocks[i].number = blocks[j].number
         /\ 0 < blocks[i].gas_limit /\ blocks[i].gas_used <= blocks[i].gas_limit
         /\ 0 < blocks[j].gas_limit /\ blocks[j].gas_used <= blocks[j].gas_limit) => i = j

(***************************************************************************)
(* C2: a drain tick that processes a response whose number is that of a    *)
(* Block which existed before the tick creates no Block with that number,  *)
(* leaves every existing Block and its geometry unchanged, reports the     *)
(* duplicate and removes the response.                                     *)
(***************************************************************************)
C2_DuplicateIsNoOp ==
    [][(DrainStep /\ \E k \in 1..Len(results) :
                        HeaderParses(results[k]) /\ NumberOf(results[k]) \in KnownNumbers)
       => /\ Len(blocks') >= Len(blocks)
          /\ SubSeq(blocks', 1, Len(blocks)) = blocks
          /\ \A i \in (Len(blocks) + 1)..Len(blocks') : blocks'[i].number \notin KnownNumbers
          /\ HasLine(stdout', "Already have this block")]_vars

C2_DuplicateDropped ==
    /\ HasLine(stdout, "Already have this block")
    /\ results = <<>>
    /\ Len(blocks) = 1
    /\ blocks[1].gas_limit > 0

(***************************************************************************)
(* C3: a response with gas_limit = 0 is rejected: no Block is stored for   *)
(* it.                                                                     *)
(***************************************************************************)
C3_ZeroGasLimitRejected ==
    \A i \in 1..Len(blocks) : blocks[i].gas_limit # 0

(***************************************************************************)
(* C4: a parse failure (malformed JSON, missing field, bad hex) never      *)
(* terminates the process.                                                 *)
(***************************************************************************)
C4_ParseFailureNeverPanics ==
    panic \in {"none", "unwrap_result"}

(***************************************************************************)
(* C5: no Block with gas_used > gas_limit is ever stored or laid out.      *)
(***************************************************************************)
C5_GasUsedWithinLimit ==
    \A i \in 1..Len(blocks) : blocks[i].gas_used <= blocks[i].gas_limit

(***************************************************************************)
(* Helpers of the layout properties.  In a drain step the k-th Block       *)
(* appended to blocks was spawned for the k-th pending response whose      *)
(* header parses and whose number was not among the known numbers.         *)
(***************************************************************************)
IsAccepted(res) == HeaderParses(res) /\ NumberOf(res) \notin KnownNumbers
Accepted == SelectSeq(results, IsAccepted)
NewBlocks == SubSeq(blocks', Len(blocks) + 1, Len(blocks'))

GasOf(t) == FromStrRadix16(Slice2(t.gas)).val

\* tx_ratio_i of a response, as a number
RatioOfTx(res, i) == F32(GasOf(res.transactions[i]), GasLimitOf(res))

RECURSIVE SumGas(_, _)
SumGas(res, n) == IF n = 0 THEN 0 ELSE SumGas(res, n - 1) + GasOf(res.transactions[n])

\* gas_limit > 0 and the tx_ratios sum to at most 1
WellFormed(res) ==
    /\ GasLimitOf(res) > 0
    /\ SumGas(res, Len(res.transactions)) <= GasLimitOf(res)

PositionOf(marker) == marker.transform.translation[2]
DisplayedSize(marker) == FMul(marker.mesh_size, marker.transform.scale[2])
SpanTop(marker) == FAdd(PositionOf(marker), FDiv(DisplayedSize(marker), F2))
SpanBottom(marker) == FSub(PositionOf(marker), FDiv(DisplayedSize(marker), F2))

\* P(res, block) for every response laid out by the step and the Block spawned for it
ForEachLaidOut(P(_, _)) ==
    /\ Len(NewBlocks) = Len(Accepted)
    /\ \A k \in 1..Len(Accepted) : P(Accepted[k], NewBlocks[k])

(***************************************************************************)
(* C6: when the tx_ratios of a new block sum to at most 1, the span of     *)
(* marker i+1 lies entirely below the span of marker i.                    *)
(***************************************************************************)
C6_NoOverlapOf(res, block) ==
    WellFormed(res) =>
        \A i \in 1..(Len(block.markers) - 1) :
            FLe(SpanTop(block.markers[i + 1]), SpanBottom(block.markers[i]))

C6_MarkersDoNotOverlap ==
    [][DrainStep => ForEachLaidOut(C6_NoOverlapOf)]_vars

(***************************************************************************)
(* C7: when the tx_ratios of a new block sum to at most 1, every marker    *)
(* position lies within the container's extent [-0.5, 0.5].                *)
(***************************************************************************)
C7_InsideOf(res, block) ==
    WellFormed(res) =>
        \A i \in 1..Len(block.markers) :
            /\ FLe(FNegHalf, PositionOf(block.markers[i]))
            /\ FLe(PositionOf(block.markers[i]), FHalf)

C7_MarkersInsideContainer ==
    [][DrainStep => ForEachLaidOut(C7_InsideOf)]_vars

(***************************************************************************)
(* C8: the running offset starts at 0.5 - TX_SPACING = 0.45 and after each *)
(* transaction i it is the offset before it minus tx_ratio_i/2 + spacing,  *)
(* hence strictly smaller (stated for gas_limit > 0).                      *)
(***************************************************************************)
C8_OffsetOf(res, block) ==
    GasLimitOf(res) > 0 =>
        LET offset(k) == LayoutLoop(GasLimitOf(res), Ratio(GasUsedOf(res), GasLimitOf(res)),
                                    res.transactions, k).offset
        IN  /\ offset(0) = FSub(FHalf, FTwentieth)
            /\ \A i \in 1..Len(res.transactions) :
                  /\ offset(i) = FSub(offset(i - 1),
                                      FAdd(FDiv(RatioOfTx(res, i), F2), FTwentieth))
                  /\ FLt(offset(i), offset(i - 1))

C8_OffsetDecreases ==
    [][DrainStep => ForEachLaidOut(C8_OffsetOf)]_vars

(***************************************************************************)
(* C9: the scale of marker i is tx_ratio_i clamped to [0.05, 1.0] (for a   *)
(* tx_ratio that is a number), while its position is the running offset    *)
(* minus half the unclamped tx_ratio_i, the running offset being 0.45      *)
(* changed, for every earlier transaction j, by TX_SPACING minus half the  *)
(* unclamped tx_ratio_j.                                                   *)
(***************************************************************************)
RECURSIVE C9_OffsetBefore(_, _)
C9_OffsetBefore(res, i) ==
    IF i = 1 THEN FSub(FHalf, FTwentieth)
    ELSE FAdd(C9_OffsetBefore(res, i - 1),
              FSub(FTwentieth, FDiv(RatioOfTx(res, i - 1), F2)))

C9_Clamped(r) == IF FLt(r, FTwentieth) THEN FTwentieth ELSE IF FLt(F1, r) THEN F1 ELSE r

C9_ClampOf(res, block) ==
    /\ Len(block.markers) = Len(res.transactions)
    /\ \A i \in 1..Len(res.transactions) :
          LET r == RatioOfTx(res, i)
              m == block.markers[i]
          IN  /\ ~IsNaN(r) => m.transform.scale = <<C9_Clamped(r), C9_Clamped(r), C9_Clamped(r)>>
              /\ PositionOf(m) = FSub(C9_OffsetBefore(res, i), FDiv(r, F2))

C9_ClampIsDisplayOnly ==
    [][DrainStep => ForEachLaidOut(C9_ClampOf)]_vars

\* a marker displayed at the 0.05 floor, placed by its true ratio 0.01, and a later marker
C9_FloorDisplayed ==
    /\ results = <<>>
    /\ \E b \in 1..Len(blocks) :
          /\ Len(blocks[b].markers) >= 2
          /\ blocks[b].markers[1].transform.scale = <<FTwentieth, FTwentieth, FTwentieth>>
          /\ PositionOf(blocks[b].markers[1]) =
                FSub(FSub(FHalf, FTwentieth), FDiv(FHundredth, F2))

(***************************************************************************)
(* C10: a new block with n transactions has exactly n segments; segment 1  *)
(* runs from the origin to marker 1, segment i > 1 from marker i-1 to      *)
(* marker i, for every response laid out in a drain tick.                  *)
(***************************************************************************)
C10_SegmentsOf(res, block) ==
    /\ Len(block.segments) = Len(res.transactions)
    /\ Len(block.markers) = Len(res.transactions)
    /\ \A i \in 1..Len(block.segments) :
          block.segments[i].lines =
              <<<<IF i = 1 THEN <<F0, F0, F0>>
                           ELSE block.markers[i - 1].transform.translation,
                  block.markers[i].transform.translation>>>>

C10_SegmentsChain ==
    [][DrainStep => ForEachLaidOut(C10_SegmentsOf)]_vars

\* two blocks laid out by the same drain tick, both with segments
C10_TwoLaidOutInOneTick ==
    /\ results = <<>>
    /\ Len(stdout) = 4
    /\ stdout[1].text = "spawning new block" /\ stdout[3].text = "spawning new block"
    /\ Len(blocks) = 2
    /\ Len(blocks[1].segments) >= 2
    /\ Len(blocks[2].segments) >= 2

(***************************************************************************)
(* C11: a new block with an empty transaction list is one container of     *)
(* unit size with one fill scaled by gas_used / gas_limit, and has no      *)
(* marker and no segment.                                                  *)
(***************************************************************************)
C11_EmptyOf(res, block) ==
    res.transactions = <<>> =>
        /\ block.mesh_size = F1
        /\ block.fill.mesh_size = F1
        /\ block.fill.transform.scale[2] = F32(GasUsedOf(res), GasLimitOf(res))
        /\ block.markers = <<>>
        /\ block.segments = <<>>

C11_EmptyBlockIsContainerAndFill ==
    [][DrainStep => ForEachLaidOut(C11_EmptyOf)]_vars

\* a block laid out from an empty transaction list: half-filled, no marker, no segment
C11_EmptyBlockLaidOut ==
    /\ results = <<>>
    /\ HasLine(stdout, "spawning new block")
    /\ Len(blocks) = 1
    /\ blocks[1].fill.transform.scale[2] = FHalf
    /\ blocks[1].markers = <<>>
    /\ blocks[1].segments = <<>>

(***************************************************************************)
(* C12: block 0x10 with gas_limit 100, gas_used 50 and transactions of gas *)
(* 20 and 10 is laid out with fill ratio 0.5, two markers of ratio 0.20    *)
(* and 0.10 in list order at two distinct positions inside [-0.5, 0.5],    *)
(* one segment from the origin to marker 1 and one from marker 1 to        *)
(* marker 2.                                                               *)
(***************************************************************************)
C12_Scenario ==
    [kind |-> "ok",
     number |-> <<48, 120, 49, 48>>,
     gas_limit |-> <<48, 120, 54, 52>>,
     gas_used |-> <<48, 120, 51, 50>>,
     transactions |->
        <<[blockNumber |-> <<48, 120, 49, 48>>, transactionIndex |-> <<48, 120, 48>>,
           gas |-> <<48, 120, 49, 52>>],
          [blockNumber |-> <<48, 120, 49, 48>>, transactionIndex |-> <<48, 120, 49>>,
           gas |-> <<48, 120, 97>>]>>]

C12_ScenarioOf(res, block) ==
    res = C12_Scenario =>
        /\ block.number = 16 /\ block.gas_limit = 100 /\ block.gas_used = 50
        /\ block.fill.transform.scale[2] = FHalf
        /\ Len(block.markers) = 2
        /\ block.markers[1].transform.scale[2] = F32(1, 5)
        /\ block.markers[2].transform.scale[2] = F32(1, 10)
        /\ \A i \in 1..2 : /\ FLe(FNegHalf, PositionOf(block.markers[i]))
                           /\ FLe(PositionOf(block.markers[i]), FHalf)
        /\ PositionOf(block.markers[1]) # PositionOf(block.markers[2])
        /\ Len(block.segments) = 2
        /\ block.segments[1].lines = <<<<<<F0, F0, F0>>,
                                        block.markers[1].transform.translation>>>>
        /\ block.segments[2].lines = <<<<block.markers[1].transform.translation,
                                        block.markers[2].transform.translation>>>>

C12_EndToEndScenario ==
    [][DrainStep => ForEachLaidOut(C12_ScenarioOf)]_vars

\* block 16 is stored with its two markers, the second below the first
C12_ScenarioLaidOut ==
    /\ panic = "none"
    /\ \E i \in 1..Len(blocks) :
          /\ blocks[i].number = 16 /\ blocks[i].gas_limit = 100 /\ blocks[i].gas_used = 50
          /\ Len(blocks[i].markers) = 2
          /\ Len(blocks[i].segments) = 2
          /\ blocks[i].markers[1].transform.scale[2] = F32(1, 5)
          /\ blocks[i].markers[2].transform.scale[2] = F32(1, 10)
          /\ FLt(PositionOf(blocks[i].markers[2]), PositionOf(blocks[i].markers[1]))

(***************************************************************************)
(* C13: for every numeric field that starts with 0x, parsing returns the   *)
(* value of the characters after the prefix read in base 16, and when      *)
(* those characters are not a hexadecimal unsigned integer it yields a     *)
(* failure value and does not panic, for the fields of the block and of    *)
(* its transactions alike.                                                 *)
(***************************************************************************)
C13_HexChars == (48..57) \cup (97..102) \cup (65..70)

C13_HasPrefix(s) == Len(s) >= 2 /\ s[1] = 48 /\ s[2] = 120

C13_ValidHex(ds) == ds # <<>> /\ \A i \in 1..Len(ds) : ds[i] \in C13_HexChars

\* the digits read in base 16, most significant first
RECURSIVE C13_Base16(_, _)
C13_Base16(ds, acc) ==
    IF ds = <<>> THEN acc ELSE C13_Base16(Tail(ds), acc * 16 + HexDigit(Head(ds)))

C13_FieldsOf(res) ==
    {res.number, res.gas_limit, res.gas_used}
        \cup {res.transactions[i].gas : i \in 1..Len(res.transactions)}
        \cup {res.transactions[i].transactionIndex : i \in 1..Len(res.transactions)}

C13_HexParsingIsTotal ==
    /\ panic \notin {"unwrap_gas", "unwrap_index"}
    /\ \A k \in 1..Len(results) :
          results[k].kind = "ok" =>
              \A s \in C13_FieldsOf(results[k]) :
                  C13_HasPrefix(s) =>
                      IF C13_ValidHex(Slice2(s))
                      THEN FromStrRadix16(Slice2(s)) = Ok(C13_Base16(Slice2(s), 0))
                      ELSE FromStrRadix16(Slice2(s)) = Err

(***************************************************************************)
(* C14: with the fetch every 2 seconds and the drain every second, at most *)
(* one completed response is pending at every drain tick, however long the *)
(* responses take and although requests are issued while others are in     *)
(* flight.                                                                 *)
(***************************************************************************)
C14_AtMostOnePendingPerDrain ==
    "drain" \in due => Len(results) <= 1

\* The same, for the runs in which no two requests are ever in flight together,
\* i.e. every response arrives before the next fetch tick
C14_AtMostOnePendingWhenPrompt ==
    [](inflight <= 1) => []("drain" \in due => Len(results) <= 1)

\* a drain tick with one response pending, in the frame that has just sent the next request
C14_DrainWithOnePending ==
    /\ "drain" \in due
    /\ Len(results) = 1
    /\ inflight = 1
    /\ panic = "none"

(***************************************************************************)
(* C15: the stored Blocks only grow in number and are write-once: no step  *)
(* removes a Block or changes the number, gas_limit or gas_used of an      *)
(* existing one, only handle_responses adds Blocks, and send_requests and  *)
(* block_movement leave the known numbers and those fields as they are.    *)
(***************************************************************************)
C15_HeaderOf(block) == <<block.number, block.gas_limit, block.gas_used>>

C15_HeadersKept ==
    /\ Len(blocks') >= Len(blocks)
    /\ \A i \in 1..Len(blocks) : C15_HeaderOf(blocks'[i]) = C15_HeaderOf(blocks[i])

C15_BlocksAreWriteOnce ==
    [][/\ C15_HeadersKept
       /\ Len(blocks') > Len(blocks) => HandleResponses /\ ~SendRequests /\ ~BlockMovement
       /\ Len(blocks') = Len(blocks) =>
              {blocks'[i].number : i \in 1..Len(blocks')} = KnownNumbers]_vars

\* two Blocks are stored, the first of which has been moved and the second not yet
C15_TwoBlocksOneMoved ==
    /\ Len(blocks) = 2
    /\ blocks[1].number # blocks[2].number
    /\ blocks[1].transform.translation[3] # F0
    /\ blocks[2].transform.translation[3] = F0

(***************************************************************************)
(* C16: a new block with n transactions has exactly n markers, the i-th of *)
(* them placed and sized from the gas of the i-th element of the list; the *)
(* transactionIndex values have no influence on the markers.               *)
(***************************************************************************)
C16_Reindexed(transactions) ==
    [i \in 1..Len(transactions) |->
        [transactions[i] EXCEPT !.transactionIndex = <<48, 120, 48>>]]

C16_MarkerOf(res, i) ==
    [mesh_size |-> F32(GasUsedOf(res), GasLimitOf(res)),
     transform |->
        [translation |-> <<F0, FSub(C9_OffsetBefore(res, i), FDiv(RatioOfTx(res, i), F2)), F0>>,
         scale |-> <<FMin(FMax(RatioOfTx(res, i), FTwentieth), F1),
                     FMin(FMax(RatioOfTx(res, i), FTwentieth), F1),
                     FMin(FMax(RatioOfTx(res, i), FTwentieth), F1)>>]]

C16_ListOrderOf(res, block) ==
    /\ Len(block.markers) = Len(res.transactions)
    /\ \A i \in 1..Len(res.transactions) : block.markers[i] = C16_MarkerOf(res, i)
    /\ block.markers =
          LayoutLoop(GasLimitOf(res), F32(GasUsedOf(res), GasLimitOf(res)),
                     C16_Reindexed(res.transactions), Len(res.transactions)).markers

C16_MarkersFollowListOrder ==
    [][DrainStep => ForEachLaidOut(C16_ListOrderOf)]_vars

\* three markers in the order of the list: gas 150, 1, 20 of a limit of 100
C16_ThreeMarkersInListOrder ==
    /\ results = <<>>
    /\ Len(blocks) = 1
    /\ Len(blocks[1].markers) = 3
    /\ blocks[1].markers[1].transform.scale[2] = F1
    /\ blocks[1].markers[2].transform.scale[2] = FTwentieth
    /\ blocks[1].markers[3].transform.scale[2] = F32(1, 5)

(***************************************************************************)
(* C17: a drain tick that does not abort the process removes every         *)
(* response it examined, whatever the outcome of each (new block,          *)
(* duplicate, unparsable number / gasLimit / gasUsed), so that no response *)
(* is examined by two drain ticks.                                         *)
(***************************************************************************)
C17_ExaminedResponsesRemoved ==
    [][(DrainDue /\ panic' = "none" /\ HandleResponses) => results' = <<>>]_vars

\* a drain tick has reported a duplicate and left nothing pending
C17_DuplicateRemoved ==
    /\ results = <<>>
    /\ due = {}
    /\ panic = "none"
    /\ stdout = <<Line("Already have this block", <<>>, <<>>)>>
    /\ Len(blocks) = 1

(***************************************************************************)
(* C18: when the drain tick is scheduled fairly, every completed response  *)
(* is eventually consumed, and when it carries a well-formed block (valid  *)
(* hex fields, gas_limit > 0) a Block with its number eventually exists    *)
(* and exists forever after.                                               *)
(***************************************************************************)
C18_ValidField(s) == CanSlice2(s) /\ FromStrRadix16(Slice2(s)).ok

C18_WellFormed(res) ==
    /\ HeaderParses(res)
    /\ GasLimitOf(res) > 0
    /\ \A i \in 1..Len(res.transactions) :
          /\ C18_ValidField(res.transactions[i].gas)
          /\ C18_ValidField(res.transactions[i].transactionIndex)

\* the numbers of the well-formed blocks among the pending responses
C18_PendingNumbers ==
    {NumberOf(results[k]) : k \in {j \in 1..Len(results) : C18_WellFormed(results[j])}}

C18_Numbers == {NumberOf(res) : res \in {r \in Responses : C18_WellFormed(r)}}

C18_EveryResponseConsumed ==
    /\ (results # <<>>) ~> (results = <<>>)
    /\ \A n \in C18_Numbers : (n \in C18_PendingNumbers) ~> [](n \in KnownNumbers)
====
